---- MODULE Spec2Model ----
(***************************************************************************)
(* pyviz: text-driven rectangle partitions (gen.py: one split per          *)
(* character; gen2.py / gen4.py: token-weighted, area-proportional splits) *)
(* and curve placement (gen3.py).                                          *)
(*                                                                         *)
(* Reals are fixed-point numbers: 1.0 is Unit, so the default margin 0.03  *)
(* is 300 and a product w * ratio is rounded down to a whole number of     *)
(* units, as the float product is rounded to a representable number.       *)
(* Characters are one-character strings; ord gives their code points.      *)
(***************************************************************************)
EXTENDS Integers, Sequences, FiniteSets, TLC

VARIABLES variant, text, cap, margin, hashkey,
          pc, tokens, seed, rng, palettes, expanded, i, rects, elements,
          removed

\* removed is a history variable: the rectangles that a split has taken
\* out of the list so far
vars == <<variant, text, cap, margin, hashkey,
          pc, tokens, seed, rng, palettes, expanded, i, rects, elements,
          removed>>

----------------------------------------------------------------------------
(* Bounds of the model *)

\* longest enumerated input text
MaxLen == 3
\* largest enumerated --max-rects / --max-cells / --max-items
MaxCap == 4
\* width of the state of the modelled pseudorandom generator
RngBits == 15
\* width of the modelled str hash, and of the seed kept by the mask
HashBits == 12
SeedBits == 6

Unit == 100 * 100

\* string-hash keys a process may start with (PYTHONHASHSEED)
HashKeys == {0, 1}

Alphabet == {"a", "(", "\n", " ", "#"}

\* a badly dedented source: the shortest text on which the tokenizer
\* signals an indentation failure
BadDedentText == <<" ", " ", "a", "\n", " ", "a">>

RECURSIVE SeqsUpTo(_, _)
SeqsUpTo(S, n) ==
    IF n = 0 THEN {<<>>}
    ELSE LET shorter == SeqsUpTo(S, n - 1)
         IN  shorter \cup {Append(s, c) : s \in shorter, c \in S}

\* three more sources: two names ("ab"), a keyword ("as"), and "bF(",
\* whose F asks for the smallest ratio, 0.15
MoreTexts == {<<"a", "b">>, <<"a", "s">>, <<"b", "F", "(">>}

Texts == SeqsUpTo(Alphabet, MaxLen) \cup MoreTexts \cup {BadDedentText}

\* margins 0.03 (the default), 0.465 (a canvas of side 0.07, whose parts
\* are soon too small to split) and 0.5 (an empty canvas)
Margins == {3 * (Unit \div 100), 93 * (Unit \div 200), Unit \div 2}

Min(a, b) == IF a <= b THEN a ELSE b
Max(a, b) == IF a >= b THEN a ELSE b

None == <<"None">>

----------------------------------------------------------------------------
(* gen.py: character mode *)

ord(ch) ==
    CASE ch = "a"  -> 97
      [] ch = "b"  -> 98
      [] ch = "F"  -> 70
      [] ch = "s"  -> 115
      [] ch = "("  -> 40
      [] ch = "\n" -> 10
      [] ch = " "  -> 32
      [] ch = "#"  -> 35

\* default arguments of gen.build_rectangles
CharDefaultMaxRects == 350
CharMinSize == 3 * (Unit \div 100)
DefaultMargin == 3 * (Unit \div 100)

\* mutant: the rectangle is read and left in the list
popKeeps(list, idx) == list

\* list.pop(idx) and list.insert(idx, x), idx counted from 0
pop(list, idx) == SubSeq(list, 1, idx) \o SubSeq(list, idx + 2, Len(list))
insert(list, idx, x) ==
    SubSeq(list, 1, Min(idx, Len(list))) \o <<x>>
        \o SubSeq(list, Min(idx, Len(list)) + 1, Len(list))

CharInitRects(m) ==
    << [x |-> m, y |-> m, w |-> Unit - 2 * m, h |-> Unit - 2 * m,
        char |-> " ", depth |-> 0] >>

CharIdx(code, n) == code % n

\* mutant: the two orientations are exchanged
CharOrientationFlipped(code) == 1 - (code % 2)

CharOrientation(code) == code % 2

\* mutant: the offset of the ratio is forgotten
CharRatioRawNoOffset(code) == code % 70

CharRatioRaw(code) == (code % 70) + 15

\* mutant: the threshold is lost, only negative sizes are rejected
TooSmallNoThreshold(rect, min_size) == rect.w < 0 \/ rect.h < 0

\* mutant: only the width is tested
TooSmallWidthOnly(rect, min_size) == rect.w < min_size

TooSmall(rect, min_size) == rect.w < min_size \/ rect.h < min_size

\* mutant: the cap is tested one rectangle too late
CapReachedLate(list, max) == Len(list) > max

CapReached(list, max) == Len(list) >= max

\* w1 = rect["w"] * ratio with ratio = ratio_raw / 100.0
CharFirstPart(len, ratio_raw) == (len * ratio_raw) \div 100

CharSplitVertical(rect, ratio_raw, ch) ==
    LET w1 == CharFirstPart(rect.w, ratio_raw)
        w2 == rect.w - w1
    IN  << [x |-> rect.x, y |-> rect.y, w |-> w1, h |-> rect.h,
            char |-> ch, depth |-> rect.depth + 1],
           [x |-> rect.x + w1, y |-> rect.y, w |-> w2, h |-> rect.h,
            char |-> ch, depth |-> rect.depth + 1] >>

CharSplitHorizontal(rect, ratio_raw, ch) ==
    LET h1 == CharFirstPart(rect.h, ratio_raw)
        h2 == rect.h - h1
    IN  << [x |-> rect.x, y |-> rect.y, w |-> rect.w, h |-> h1,
            char |-> ch, depth |-> rect.depth + 1],
           [x |-> rect.x, y |-> rect.y + h1, w |-> rect.w, h |-> h2,
            char |-> ch, depth |-> rect.depth + 1] >>

\* the history after an iteration on rect: a rectangle that is split is
\* out of the list
Removed(history, rect, min_size) ==
    IF TooSmall(rect, min_size) THEN history ELSE history \cup {rect}

\* mutant: the rejected rectangle is put at the end of the list
PutBackAtEnd(list, idx, rect) == Append(list, rect)

\* rects.insert(idx, rect) of a rejected rectangle
PutBack(list, idx, rect) == insert(list, idx, rect)

\* mutant: the two children are inserted in the other order
InsertPairSwapped(list, idx, pair) ==
    insert(insert(list, idx, pair[1]), idx, pair[2])

\* rects.insert(idx, second); rects.insert(idx, first)
InsertPair(list, idx, pair) == insert(insert(list, idx, pair[2]), idx, pair[1])

\* char_group(ch): the class the drawing styles give to a rectangle's char
char_group(ch) ==
    CASE ch \in {" ", "\n"}      -> "whitespace"
      [] ch \in {"a", "b", "s"}  -> "lower"
      [] ch = "F"                -> "upper"
      [] ch = "("                -> "bracket"
      [] OTHER                   -> "other"

\* build_rectangles up to the loop: the initial rectangle, and the early
\* return on empty text
CharBegin ==
    /\ pc = "start"
    /\ variant = "gen"
    /\ rects' = CharInitRects(margin)
    /\ i' = 0
    /\ pc' = IF text = <<>> THEN "done" ELSE "loop"
    /\ UNCHANGED <<variant, text, cap, margin, hashkey,
                   tokens, seed, rng, palettes, expanded, elements, removed>>

\* the for loop is exhausted, or breaks on the cap
CharStop ==
    /\ pc = "loop"
    /\ variant = "gen"
    /\ i = Len(text) \/ CapReached(rects, cap)
    /\ pc' = "done"
    /\ UNCHANGED <<variant, text, cap, margin, hashkey,
                   tokens, seed, rng, palettes, expanded, i, rects, elements, removed>>

\* mutant: a rejected split is retried with the same character
CharStepRetry ==
    /\ pc = "loop"
    /\ variant = "gen"
    /\ i < Len(text)
    /\ ~CapReached(rects, cap)
    /\ LET ch    == text[i + 1]
           code  == ord(ch)
           idx   == CharIdx(code, Len(rects))
           rect  == rects[idx + 1]
           rest  == pop(rects, idx)
       IN  IF TooSmall(rect, CharMinSize)
           THEN /\ rects' = PutBack(rest, idx, rect)
                /\ i' = i
           ELSE /\ i' = i + 1
                /\ IF CharOrientation(code) = 0
                   THEN rects' = InsertPair(rest, idx,
                                    CharSplitVertical(rect, CharRatioRaw(code), ch))
                   ELSE rects' = InsertPair(rest, idx,
                                    CharSplitHorizontal(rect, CharRatioRaw(code), ch))
    /\ removed' = Removed(removed, rects[CharIdx(ord(text[i + 1]), Len(rects)) + 1],
                          CharMinSize)
    /\ UNCHANGED <<variant, text, cap, margin, hashkey,
                   pc, tokens, seed, rng, palettes, expanded, elements>>

\* one iteration of the loop on character text[i + 1]
CharStep ==
    /\ pc = "loop"
    /\ variant = "gen"
    /\ i < Len(text)
    /\ ~CapReached(rects, cap)
    /\ LET ch    == text[i + 1]
           code  == ord(ch)
           idx   == CharIdx(code, Len(rects))
           rect  == rects[idx + 1]
           rest  == pop(rects, idx)
       IN  IF TooSmall(rect, CharMinSize)
           THEN rects' = PutBack(rest, idx, rect)
           ELSE IF CharOrientation(code) = 0
           THEN rects' = InsertPair(rest, idx,
                            CharSplitVertical(rect, CharRatioRaw(code), ch))
           ELSE rects' = InsertPair(rest, idx,
                            CharSplitHorizontal(rect, CharRatioRaw(code), ch))
    /\ i' = i + 1
    /\ removed' = Removed(removed, rects[CharIdx(ord(text[i + 1]), Len(rects)) + 1],
                          CharMinSize)
    /\ UNCHANGED <<variant, text, cap, margin, hashkey,
                   pc, tokens, seed, rng, palettes, expanded, elements>>

----------------------------------------------------------------------------
(* gen2.py / gen3.py / gen4.py: tokenize_source *)

\* io.StringIO(text).readline: the lines of text, each with its newline
RECURSIVE readlines(_)
readlines(t) ==
    IF t = <<>> THEN <<>>
    ELSE LET nl == {k \in 1..Len(t) : t[k] = "\n"}
             n  == IF nl = {} THEN Len(t)
                   ELSE CHOOSE k \in nl : \A j \in nl : k <= j
         IN  <<SubSeq(t, 1, n)>> \o readlines(SubSeq(t, n + 1, Len(t)))

Tok(type, string) == [type |-> type, string |-> string]

Last(s) == s[Len(s)]

\* number of leading blanks of a line (its indentation column)
RECURSIVE LeadingBlanks(_)
LeadingBlanks(line) ==
    IF line # <<>> /\ line[1] = " "
    THEN 1 + LeadingBlanks(Tail(line)) ELSE 0

\* end of the name that starts at p
RECURSIVE NameEnd(_, _)
NameEnd(line, p) ==
    IF p < Len(line) /\ line[p + 1] \in {"a", "b", "s", "F"}
    THEN NameEnd(line, p + 1) ELSE p

\* end of the comment that starts at p: the line without its newline
CommentEnd(line) == IF Last(line) = "\n" THEN Len(line) - 1 ELSE Len(line)

\* the tokens of one line from position p on (tokenize's inner while loop)
RECURSIVE ScanLine(_, _, _, _)
ScanLine(line, p, parenlev, toks) ==
    IF p > Len(line) THEN [toks |-> toks, parenlev |-> parenlev]
    ELSE LET c == line[p]
         IN  CASE c = " " -> ScanLine(line, p + 1, parenlev, toks)
               [] c = "\n" ->
                    ScanLine(line, p + 1, parenlev,
                        Append(toks, Tok(IF parenlev > 0 THEN "NL" ELSE "NEWLINE",
                                         <<c>>)))
               [] c = "#" ->
                    ScanLine(line, CommentEnd(line) + 1, parenlev,
                        Append(toks, Tok("COMMENT",
                                         SubSeq(line, p, CommentEnd(line)))))
               [] c = "(" ->
                    ScanLine(line, p + 1, parenlev + 1,
                        Append(toks, Tok("OP", <<c>>)))
               [] OTHER ->
                    ScanLine(line, NameEnd(line, p) + 1, parenlev,
                        Append(toks, Tok("NAME",
                                         SubSeq(line, p, NameEnd(line, p)))))

\* the indentation stack with every level deeper than column popped
RECURSIVE Dedent(_, _)
Dedent(indents, column) ==
    IF column < Last(indents)
    THEN Dedent(SubSeq(indents, 1, Len(indents) - 1), column)
    ELSE indents

Repeat(n, x) == [k \in 1..n |-> x]

\* after the loop over lines: the implicit NEWLINE, the remaining DEDENTs
\* and the ENDMARKER
Finish(last_line, indents, toks) ==
    LET blanks  == LeadingBlanks(last_line)
        comment == blanks < Len(last_line) /\ last_line[blanks + 1] = "#"
        nl == IF last_line # <<>> /\ Last(last_line) # "\n" /\ ~comment
              THEN <<Tok("NEWLINE", <<>>)>> ELSE <<>>
    IN  [toks |-> toks \o nl
                      \o Repeat(Len(indents) - 1, Tok("DEDENT", <<>>))
                      \o <<Tok("ENDMARKER", <<>>)>>,
         end  |-> "ok"]

\* tokenize.generate_tokens on the lines from line k on: the tokens it
\* yields and how it ends ("ok", or the exception it raises)
RECURSIVE LexLines(_, _, _, _, _)
LexLines(lines, k, indents, parenlev, toks) ==
    LET last_line == IF k > 1 THEN lines[k - 1] ELSE <<>>
    IN
    IF k > Len(lines)
    THEN IF parenlev = 0 THEN Finish(last_line, indents, toks)
         ELSE [toks |-> toks, end |-> "TokenError"]
    ELSE
    LET line   == lines[k]
        column == LeadingBlanks(line)
        scan(ind, ts) ==
            LET r == ScanLine(line, column + 1, parenlev, ts)
            IN  LexLines(lines, k + 1, ind, r.parenlev, r.toks)
    IN  IF parenlev # 0 THEN scan(indents, toks)
        ELSE IF column = Len(line) THEN Finish(last_line, indents, toks)
        ELSE IF line[column + 1] = "\n"
        THEN LexLines(lines, k + 1, indents, parenlev,
                      Append(toks, Tok("NL", <<"\n">>)))
        ELSE IF line[column + 1] = "#"
        THEN LexLines(lines, k + 1, indents, parenlev,
                      toks \o << Tok("COMMENT",
                                     SubSeq(line, column + 1, CommentEnd(line))),
                                 Tok("NL", SubSeq(line, CommentEnd(line) + 1,
                                                  Len(line))) >>)
        ELSE IF column > Last(indents)
        THEN scan(Append(indents, column),
                  Append(toks, Tok("INDENT", SubSeq(line, 1, column))))
        ELSE IF column < Last(indents)
        THEN IF \A n \in 1..Len(indents) : indents[n] # column
             THEN [toks |-> toks, end |-> "IndentationError"]
             ELSE scan(Dedent(indents, column),
                       toks \o Repeat(Len(indents) - Len(Dedent(indents, column)),
                                      Tok("DEDENT", <<>>)))
        ELSE scan(indents, toks)

generate_tokens(t) == LexLines(readlines(t), 1, <<0>>, 0, <<>>)

\* keyword.iskeyword, on the names the alphabet can spell
iskeyword(string) == string = <<"a", "s">>

\* mutant: the end marker is classified like any other token
SkippedKeepsEndmarker == {"ENCODING", "NL"}

Skipped == {"ENCODING", "NL", "ENDMARKER"}

TokenGroup(tok) ==
    CASE tok.type = "COMMENT" -> "comment"
      [] tok.type = "STRING"  -> "string"
      [] tok.type = "NUMBER"  -> "number"
      [] tok.type = "OP"      -> "op"
      [] tok.type = "NAME"    -> IF iskeyword(tok.string) THEN "keyword" ELSE "name"
      [] OTHER                -> "other"

Symbol(string, group, weight) ==
    [text |-> string, group |-> group, weight |-> weight]

\* mutant: each symbol is put in front of the list
RECURSIVE ClassifyReversed(_)
ClassifyReversed(toks) ==
    IF toks = <<>> THEN <<>>
    ELSE LET tok == Head(toks)
         IN  IF tok.type \in Skipped THEN ClassifyReversed(Tail(toks))
             ELSE ClassifyReversed(Tail(toks))
                      \o <<Symbol(tok.string, TokenGroup(tok), Max(1, Len(tok.string)))>>

\* the body of the for loop: one symbol per token that is not skipped
RECURSIVE Classify(_)
Classify(toks) ==
    IF toks = <<>> THEN <<>>
    ELSE LET tok == Head(toks)
         IN  IF tok.type \in Skipped THEN Classify(Tail(toks))
             ELSE <<Symbol(tok.string, TokenGroup(tok), Max(1, Len(tok.string)))>>
                      \o Classify(Tail(toks))

\* the except clause: what is appended when TokenError is caught
Fallback(t) == Symbol(t, "other", IF Len(t) # 0 THEN Len(t) ELSE 1)

\* only TokenError is caught; any other exception leaves the function
Caught == {"TokenError"}

\* tokenize_source(text): the list it returns, or the exception that
\* leaves it
tokenize_source(t) ==
    LET lex    == generate_tokens(t)
        result == Classify(lex.toks)
    IN  IF lex.end = "ok" THEN [raised |-> "no", result |-> result]
        ELSE IF lex.end \in Caught
        THEN [raised |-> "no", result |-> Append(result, Fallback(t))]
        ELSE [raised |-> lex.end, result |-> <<>>]

TokenVariants == {"gen2", "gen3", "gen4"}

Tokenize ==
    /\ pc = "start"
    /\ variant \in TokenVariants
    /\ LET r == tokenize_source(text)
       IN  IF r.raised = "no"
           THEN /\ tokens' = r.result
                /\ pc' = "tokenized"
           ELSE /\ tokens' = tokens
                /\ pc' = "raised"
    /\ UNCHANGED <<variant, text, cap, margin, hashkey,
                   seed, rng, palettes, expanded, i, rects, elements, removed>>

----------------------------------------------------------------------------
(* seed derivation, the pseudorandom generator and palette selection *)

Runs == {1, 2}

Pow2(n) == 2 ^ n

RECURSIVE HashFold(_, _)
HashFold(h, t) ==
    IF t = <<>> THEN h
    ELSE HashFold((h * 31 + ord(Head(t))) % Pow2(HashBits), Tail(t))

\* the built-in hash of a str in a process whose hash key is key: 0 for
\* the empty string, otherwise a keyed hash, a signed integer of HashBits
\* bits
hash(key, t) ==
    IF t = <<>> THEN 0
    ELSE LET u == HashFold(key, t)
         IN  IF u >= Pow2(HashBits - 1) THEN u - Pow2(HashBits) ELSE u

\* hash(text) & 0xFFFFFFFF: the low half of the bits, never negative
SeedOf(key, t) == hash(key, t) % Pow2(SeedBits)

\* random.Random(seed): the generator's state is a function of the seed,
\* and every draw is a function of the state, which it advances.  The
\* generator is a linear congruential one of full period.
Random(s) == s % Pow2(RngBits)
Advance(state) == (state * 4101 + 12345) % Pow2(RngBits)

\* rng.random(), in thousandths, rng.randint(a, b) and the index
\* rng.shuffle draws below n, each from the state state
random(state) == (Advance(state) * 1000) \div Pow2(RngBits)
randbelow(state, n) == (Advance(state) * n) \div Pow2(RngBits)
randint(state, a, b) == a + randbelow(state, b - a + 1)

swap(list, a, b) ==
    [k \in 1..Len(list) |->
        IF k = a THEN list[b] ELSE IF k = b THEN list[a] ELSE list[k]]

\* rng.shuffle(list): for k in reversed(range(1, len(list))), swap
\* list[k] and list[randbelow(k + 1)]
RECURSIVE ShuffleFrom(_, _, _)
ShuffleFrom(list, k, state) ==
    IF k < 1 THEN [list |-> list, rng |-> state]
    ELSE ShuffleFrom(swap(list, k + 1, randbelow(state, k + 1) + 1),
                     k - 1, Advance(state))

shuffle(list, state) == ShuffleFrom(list, Len(list) - 1, state)

\* number of entries of PALETTES
NumPalettes == 5

\* mutant: the first index is taken twice
ChosenRepeated(indices) == <<indices[1], indices[1], indices[2]>>

\* indices[:3] of the shuffled indices
Chosen(indices) == SubSeq(indices, 1, Min(3, Len(indices)))

\* choose_palettes(text) in gen2.py and gen4.py; seed holds the seed each
\* of two processes derives from the same text
ChoosePalettes ==
    /\ pc = "tokenized"
    /\ variant \in {"gen2", "gen4"}
    /\ seed' = [r \in Runs |-> SeedOf(hashkey[r], text)]
    /\ LET sh == shuffle([k \in 1..NumPalettes |-> k - 1], Random(seed'[1]))
       IN  /\ palettes' = Chosen(sh.list)
           /\ rng' = sh.rng
    /\ pc' = "chosen"
    /\ UNCHANGED <<variant, text, cap, margin, hashkey,
                   tokens, expanded, i, rects, elements, removed>>

----------------------------------------------------------------------------
(* gen2.py build_rectangles and gen4.py build_cells: token mode *)

TokenMinSize == 2 * (Unit \div 100)

\* mutant: the margin is taken off one side only
TokenInitRectsOneMargin(m) ==
    << [x |-> m, y |-> m, w |-> Unit - m, h |-> Unit - m,
        group |-> "background", token |-> None, depth |-> 0] >>

TokenInitRects(m) ==
    << [x |-> m, y |-> m, w |-> Unit - 2 * m, h |-> Unit - 2 * m,
        group |-> "background", token |-> None, depth |-> 0] >>

RECURSIVE SumWeights(_)
SumWeights(toks) ==
    IF toks = <<>> THEN 0 ELSE Head(toks).weight + SumWeights(Tail(toks))

\* sum(t["weight"] for t in tokens) or 1.0
TotalWeight(toks) == IF SumWeights(toks) # 0 THEN SumWeights(toks) ELSE 1

\* mutant: a token of small share gets no copy at all
CopiesNoMin(weight, total_weight, target_len) ==
    (weight * target_len) \div total_weight

\* mutant: the weight is not divided by the total weight
CopiesUnshared(weight, total_weight, target_len) ==
    Max(1, weight * target_len)

\* max(1, int(share * target_len)) with share = weight / total_weight
Copies(weight, total_weight, target_len) ==
    Max(1, (weight * target_len) \div total_weight)

\* the expansion loop: each token repeated copies times, in token order
RECURSIVE Expand(_, _, _)
Expand(toks, total_weight, target_len) ==
    IF toks = <<>> THEN <<>>
    ELSE Repeat(Copies(Head(toks).weight, total_weight, target_len), Head(toks))
             \o Expand(Tail(toks), total_weight, target_len)

Area(rect) == rect.w * rect.h

RECURSIVE SumAreas(_)
SumAreas(list) == IF list = <<>> THEN 0 ELSE Area(Head(list)) + SumAreas(Tail(list))

\* pick = rng.random() * total_area, the draw r in thousandths
Pick(r, total_area) == (total_area \div 1000) * r

\* the cumulative scan: the first index whose running sum reaches pick,
\* index 0 when none does
PickIdx(list, pick) ==
    LET hits == {k \in 1..Len(list) : SumAreas(SubSeq(list, 1, k)) >= pick}
    IN  IF hits = {} THEN 0
        ELSE (CHOOSE k \in hits : \A j \in hits : k <= j) - 1

\* the orientation draw advances the generator once in every branch
Orientation(group, state) ==
    IF group \in {"comment", "string"}
    THEN (IF random(state) < 700 THEN 1 ELSE 0)
    ELSE IF group \in {"keyword", "op"}
    THEN (IF random(state) < 700 THEN 0 ELSE 1)
    ELSE randint(state, 0, 1)

\* base ratio of a group, in thousandths
BaseRatio(group) ==
    CASE group = "keyword" -> 350
      [] group = "comment" -> 650
      [] group = "string"  -> 550
      [] group = "number"  -> 450
      [] group = "name"    -> 500
      [] group = "op"      -> 400
      [] OTHER             -> 500

\* jitter = (rng.random() - 0.5) * 0.3, in thousandths
Jitter(r) == ((r - 500) * 3) \div 10

\* ratio = min(0.8, max(0.2, base + jitter)), in thousandths
Ratio(group, r) == Min(800, Max(200, BaseRatio(group) + Jitter(r)))

\* w1 = rect["w"] * ratio
TokenFirstPart(len, ratio) == (len * ratio) \div 1000

\* mutant: the children stay at the depth of their parent
mk_rectKeepsDepth(x, y, w, h, t, rect) ==
    [x |-> x, y |-> y, w |-> w, h |-> h,
     group |-> t.group, token |-> t.text, depth |-> rect.depth]

mk_rect(x, y, w, h, t, rect) ==
    [x |-> x, y |-> y, w |-> w, h |-> h,
     group |-> t.group, token |-> t.text, depth |-> rect.depth + 1]

\* mutant: the right child is not moved right of the left one
TokenSplitVerticalOverlap(rect, ratio, t) ==
    LET w1 == TokenFirstPart(rect.w, ratio)
        w2 == rect.w - w1
    IN  << mk_rect(rect.x, rect.y, w1, rect.h, t, rect),
           mk_rect(rect.x, rect.y, w2, rect.h, t, rect) >>

TokenSplitVertical(rect, ratio, t) ==
    LET w1 == TokenFirstPart(rect.w, ratio)
        w2 == rect.w - w1
    IN  << mk_rect(rect.x, rect.y, w1, rect.h, t, rect),
           mk_rect(rect.x + w1, rect.y, w2, rect.h, t, rect) >>

TokenSplitHorizontal(rect, ratio, t) ==
    LET h1 == TokenFirstPart(rect.h, ratio)
        h2 == rect.h - h1
    IN  << mk_rect(rect.x, rect.y, rect.w, h1, t, rect),
           mk_rect(rect.x, rect.y + h1, rect.w, h2, t, rect) >>

\* up to the loop: the initial rectangle, the early return on no tokens,
\* the expansion and its shuffle
BuildBegin(v) ==
    /\ pc = "chosen"
    /\ variant = v
    /\ rects' = TokenInitRects(margin)
    /\ i' = 0
    /\ IF tokens = <<>>
       THEN /\ pc' = "done"
            /\ UNCHANGED <<expanded, rng>>
       ELSE LET sh == shuffle(Expand(tokens, TotalWeight(tokens), cap * 2), rng)
            IN  /\ expanded' = sh.list
                /\ rng' = sh.rng
                /\ pc' = "loop"
    /\ UNCHANGED <<variant, text, cap, margin, hashkey,
                   tokens, seed, palettes, elements, removed>>

\* mutant: the total area is not tested
TokenStopNoAreaTest(v) ==
    /\ pc = "loop"
    /\ variant = v
    /\ \/ i = Len(expanded)
       \/ CapReached(rects, cap)
    /\ pc' = "done"
    /\ UNCHANGED <<variant, text, cap, margin, hashkey,
                   tokens, seed, rng, palettes, expanded, i, rects, elements, removed>>

\* the loop is exhausted, or breaks on the cap or on a total area <= 0
TokenStop(v) ==
    /\ pc = "loop"
    /\ variant = v
    /\ \/ i = Len(expanded)
       \/ CapReached(rects, cap)
       \/ SumAreas(rects) <= 0
    /\ pc' = "done"
    /\ UNCHANGED <<variant, text, cap, margin, hashkey,
                   tokens, seed, rng, palettes, expanded, i, rects, elements, removed>>

\* one iteration of the loop on expanded[i + 1]; idx is the rectangle
\* picked, s1 and s2 the generator after the first and the second draw
TokenStep(v) ==
    /\ pc = "loop"
    /\ variant = v
    /\ i < Len(expanded)
    /\ ~CapReached(rects, cap)
    /\ SumAreas(rects) > 0
    /\ \E idx \in {PickIdx(rects, Pick(random(rng), SumAreas(rects)))},
          s1 \in {Advance(rng)}, s2 \in {Advance(Advance(rng))} :
       LET t     == expanded[i + 1]
           rect  == rects[idx + 1]
           rest  == pop(rects, idx)
           ratio == Ratio(t.group, random(s2))
       IN  /\ removed' = Removed(removed, rect, TokenMinSize)
           /\ IF TooSmall(rect, TokenMinSize)
              THEN /\ rects' = PutBack(rest, idx, rect)
                   /\ rng' = s1
              ELSE /\ rng' = Advance(s2)
                   /\ IF Orientation(t.group, s1) = 0
                      THEN rects' = InsertPair(rest, idx,
                                       TokenSplitVertical(rect, ratio, t))
                      ELSE rects' = InsertPair(rest, idx,
                                       TokenSplitHorizontal(rect, ratio, t))
    /\ i' = i + 1
    /\ UNCHANGED <<variant, text, cap, margin, hashkey,
                   pc, tokens, seed, palettes, expanded, elements>>

build_rectangles_begin == BuildBegin("gen2")
build_rectangles_stop  == TokenStop("gen2")
build_rectangles_step  == TokenStep("gen2")
build_cells_begin == BuildBegin("gen4")
build_cells_stop  == TokenStop("gen4")
build_cells_step  == TokenStep("gen4")

----------------------------------------------------------------------------
(* gen3.py: seeded generator and the three curve builders.  An element
   keeps its type, its group and the attributes that are linear in a draw
   (in thousandths); coordinates computed with cos and sin are left out,
   their draws are made. *)

RECURSIVE Join(_)
Join(toks) == IF toks = <<>> THEN <<>> ELSE Head(toks).text \o Join(Tail(toks))

\* make_figure: text_for_seed or "".join(t["text"] for t in tokens)
SeedText(text_for_seed, toks) ==
    IF text_for_seed # <<>> THEN text_for_seed ELSE Join(toks)

\* make_rng_from_text, run by each of two processes
MakeRng ==
    /\ pc = "tokenized"
    /\ variant = "gen3"
    /\ seed' = [r \in Runs |-> SeedOf(hashkey[r], SeedText(text, tokens))]
    /\ rng' = Random(seed'[1])
    /\ pc' = "seeded"
    /\ UNCHANGED <<variant, text, cap, margin, hashkey,
                   tokens, palettes, expanded, i, rects, elements, removed>>

\* state after n draws
RECURSIVE AdvanceBy(_, _)
AdvanceBy(state, n) == IF n = 0 THEN state ELSE AdvanceBy(Advance(state), n - 1)

\* size = max(0.01, min(0.22, 0.03 + 0.12 * (w / total_weight * len(tokens))))
OrbitSize(w, total_weight, n) ==
    Max(10, Min(220, 30 + (120 * w * n) \div total_weight))

\* the loop of build_orbit_layers from token k on, count elements made
RECURSIVE OrbitLoop(_, _, _, _, _)
OrbitLoop(toks, k, max_items, state, made) ==
    IF k > Len(toks) \/ Len(made) >= max_items
    THEN [elements |-> made, rng |-> state]
    ELSE OrbitLoop(toks, k + 1, max_items, AdvanceBy(state, 3),
            Append(made,
                [type  |-> "circle",
                 r     |-> OrbitSize(toks[k].weight, TotalWeight(toks), Len(toks)),
                 group |-> toks[k].group,
                 alpha |-> 150 + (600 * random(AdvanceBy(state, 2))) \div 1000]))

build_orbit_layers(toks, max_items, state) ==
    IF toks = <<>> THEN [elements |-> <<>>, rng |-> state]
    ELSE OrbitLoop(toks, 1, max_items, state, <<>>)

\* the default of dict.get is evaluated first: randint draws in any case
SideChoice(group, state) ==
    CASE group = "keyword" -> 0
      [] group = "name"    -> 1
      [] group = "string"  -> 2
      [] group = "comment" -> 3
      [] OTHER             -> randint(state, 0, 3)

RECURSIVE RibbonLoop(_, _, _, _, _)
RibbonLoop(toks, k, max_items, state, made) ==
    IF k > Len(toks) \/ Len(made) >= max_items
    THEN [elements |-> made, rng |-> state]
    ELSE RibbonLoop(toks, k + 1, max_items, AdvanceBy(state, 7),
            Append(made,
                [type  |-> "bezier",
                 side  |-> SideChoice(toks[k].group, state),
                 group |-> toks[k].group,
                 alpha |-> 200 + (500 * random(AdvanceBy(state, 6))) \div 1000]))

build_ribbon_paths(toks, max_items, state) ==
    IF toks = <<>> THEN [elements |-> <<>>, rng |-> state]
    ELSE RibbonLoop(toks, 1, max_items, state, <<>>)

\* number of points of a spiral
SpiralSteps == 40

RECURSIVE SpiralLoop(_, _, _, _, _)
SpiralLoop(toks, k, max_items, state, made) ==
    IF k > Len(toks) \/ Len(made) >= max_items
    THEN [elements |-> made, rng |-> state]
    ELSE SpiralLoop(toks, k + 1, max_items, AdvanceBy(state, 5),
            Append(made,
                [type   |-> "polyline",
                 points |-> SpiralSteps,
                 group  |-> toks[k].group,
                 alpha  |-> 150 + (550 * random(AdvanceBy(state, 3))) \div 1000,
                 lw     |-> 300 + (1400 * random(AdvanceBy(state, 4))) \div 1000]))

build_spiral_paths(toks, max_items, state) ==
    IF toks = <<>> THEN [elements |-> <<>>, rng |-> state]
    ELSE SpiralLoop(toks, 1, max_items, state, <<>>)

\* make_figure: orbits with max_items // 3, ribbons and spirals with
\* max_items // 2, one after the other on the same generator
BuildOrbits ==
    /\ pc = "seeded"
    /\ LET b == build_orbit_layers(tokens, cap \div 3, rng)
       IN  /\ elements' = [elements EXCEPT !.orbits = b.elements]
           /\ rng' = b.rng
    /\ pc' = "orbits"
    /\ UNCHANGED <<variant, text, cap, margin, hashkey,
                   tokens, seed, palettes, expanded, i, rects, removed>>

BuildRibbons ==
    /\ pc = "orbits"
    /\ LET b == build_ribbon_paths(tokens, cap \div 2, rng)
       IN  /\ elements' = [elements EXCEPT !.ribbons = b.elements]
           /\ rng' = b.rng
    /\ pc' = "ribbons"
    /\ UNCHANGED <<variant, text, cap, margin, hashkey,
                   tokens, seed, palettes, expanded, i, rects, removed>>

BuildSpirals ==
    /\ pc = "ribbons"
    /\ LET b == build_spiral_paths(tokens, cap \div 2, rng)
       IN  /\ elements' = [elements EXCEPT !.spirals = b.elements]
           /\ rng' = b.rng
    /\ pc' = "done"
    /\ UNCHANGED <<variant, text, cap, margin, hashkey,
                   tokens, seed, palettes, expanded, i, rects, removed>>

----------------------------------------------------------------------------
(* One run of one of the four programs *)

Variants == {"gen", "gen2", "gen3", "gen4"}

\* enumerated caps: the small ones and, in character mode, the default
Caps(v) ==
    IF v = "gen" THEN (0..MaxCap) \cup {CharDefaultMaxRects}
    ELSE IF v = "gen3" THEN 0..(2 * MaxCap)
    ELSE 0..MaxCap

NoSeed == [r \in Runs |-> -1]
NoElements == [orbits |-> None, ribbons |-> None, spirals |-> None]

Init ==
    /\ variant \in Variants
    /\ text \in Texts
    /\ cap \in Caps(variant)
    /\ margin \in (IF variant = "gen3" THEN {DefaultMargin} ELSE Margins)
    /\ hashkey \in (IF variant = "gen" THEN {[r \in Runs |-> 0]}
                    ELSE [Runs -> HashKeys])
    /\ pc = "start"
    /\ tokens = <<>>
    /\ seed = NoSeed
    /\ rng = 0
    /\ palettes = <<>>
    /\ expanded = <<>>
    /\ i = 0
    /\ rects = <<>>
    /\ elements = NoElements
    /\ removed = {}

Next ==
    \/ CharBegin
    \/ CharStop
    \/ CharStep
    \/ Tokenize
    \/ ChoosePalettes
    \/ build_rectangles_begin
    \/ build_rectangles_stop
    \/ build_rectangles_step
    \/ build_cells_begin
    \/ build_cells_stop
    \/ build_cells_step
    \/ MakeRng
    \/ BuildOrbits
    \/ BuildRibbons
    \/ BuildSpirals

Spec == Init /\ [][Next]_vars

----------------------------------------------------------------------------
(* Properties *)

PartitionVariants == {"gen", "gen2", "gen4"}

\* the sequence the partition loop iterates over
Driving == IF variant = "gen" THEN text ELSE expanded

InLoop == variant \in PartitionVariants /\ pc \in {"loop", "done"}

Disjoint(a, b) ==
    \/ a.x + a.w <= b.x
    \/ b.x + b.w <= a.x
    \/ a.y + a.h <= b.y
    \/ b.y + b.h <= a.y

CanvasArea == (Unit - 2 * margin) * (Unit - 2 * margin)

\* C1: in every state of the partition loop, in character mode and in
\* token mode, the active rectangles have pairwise disjoint interiors and
\* their areas sum to the area of the margin-inset canvas.
C1_PartitionInvariant ==
    InLoop =>
        /\ \A a, b \in 1..Len(rects) : a # b => Disjoint(rects[a], rects[b])
        /\ SumAreas(rects) = CanvasArea

\* a token-mode run that has split at least twice
C1_Witness ==
    /\ variant = "gen4"
    /\ pc = "done"
    /\ Len(rects) >= 3
    /\ \E a, b \in 1..Len(rects) : rects[a].w # rects[b].w /\ rects[a].h # rects[b].h

\* C2 as claimed: two runs on the same text derive the same seed, so that
\* every value drawn from the generator is the same in both.
C2_SameSeed == seed[1] = seed[2]

SameSymbol(rect, sym) ==
    IF variant = "gen" THEN rect.char = sym
    ELSE rect.group = sym.group /\ rect.token = sym.text

\* an iteration consumes the next symbol of the driving sequence, and
\* the children of a split carry that symbol
C4_Iteration ==
    (pc = "loop" /\ pc' = "loop") =>
        /\ i' = i + 1
        /\ i' <= Len(Driving)
        /\ Len(rects') > Len(rects) =>
              \E k \in 1..Len(rects) :
                  /\ SameSymbol(rects'[k], Driving[i + 1])
                  /\ SameSymbol(rects'[k + 1], Driving[i + 1])
                  /\ rects'[k].depth = rects[k].depth + 1

\* the steps of the partition loop
LoopNext ==
    \/ CharStop
    \/ CharStep
    \/ build_rectangles_stop
    \/ build_rectangles_step
    \/ build_cells_stop
    \/ build_cells_step

\* C4: every iteration of the partition loop consumes exactly one symbol,
\* the next one in sequence order, whether it splits or rejects; the loop
\* runs at most len(driving sequence) iterations, and a run that has not
\* ended always has a step that changes its state (no step is retried).
C4_Termination ==
    /\ [][C4_Iteration]_vars
    /\ [](InLoop => i <= Len(Driving))
    /\ [](pc = "loop" => ENABLED <<LoopNext>>_vars)

\* a run that ended with every symbol consumed, some of them rejected
C4_Witness ==
    /\ variant \in PartitionVariants
    /\ pc = "done"
    /\ i = Len(Driving)
    /\ i >= 2
    /\ Len(rects) < 1 + i

\* C5: every split yields two children of strictly positive width and
\* height: every rectangle that is not the initial one was made by a
\* split.
C5_NoDegenerateSplit ==
    InLoop => \A k \in 1..Len(rects) :
                  rects[k].depth > 0 => rects[k].w > 0 /\ rects[k].h > 0

\* children of children, in character mode
C5_Witness ==
    /\ variant = "gen"
    /\ \E k \in 1..Len(rects) : rects[k].depth >= 3

CharRect(x, y, w, h, ch, depth) ==
    [x |-> x, y |-> y, w |-> w, h |-> h, char |-> ch, depth |-> depth]

\* the run of the fixture: text "ab", cap 350, margin 0.03
C6_Run ==
    /\ variant = "gen"
    /\ text = <<"a", "b">>
    /\ cap = CharDefaultMaxRects
    /\ margin = DefaultMargin

\* C6: in character mode on "ab" with cap 350 and margin 0.03 (lengths in
\* ten-thousandths), after 'a' the list is [bottom (0.03, 0.03, 0.94,
\* 0.3948), top (0.03, 0.4248, 0.94, 0.5452)], both of depth 1; after 'b'
\* the bottom one is split into left (width 0.4042) and right (width
\* 0.5358), both of depth 2, and the list is [left, right, top].
C6_Fixture ==
    (C6_Run /\ InLoop) =>
        /\ i \in 0..2
        /\ i = 1 => rects = << CharRect(300, 300, 9400, 3948, "a", 1),
                               CharRect(300, 4248, 9400, 5452, "a", 1) >>
        /\ i = 2 => rects = << CharRect(300, 300, 4042, 3948, "b", 2),
                               CharRect(4342, 300, 5358, 3948, "b", 2),
                               CharRect(300, 4248, 9400, 5452, "a", 1) >>

\* the fixture has run to its end
C6_Witness == C6_Run /\ pc = "done" /\ i = 2 /\ Len(rects) = 3

\* C7: on empty text no exception leaves tokenize_source, the token list
\* is empty, the partition returns exactly the initial rectangle (x = y =
\* margin, w = h = 1 - 2 * margin, depth 0) with no symbol consumed, and
\* each of the three builders returns an empty list.
C7_EmptyInput ==
    text = <<>> =>
        /\ pc # "raised"
        /\ (variant \in TokenVariants /\ pc # "start") => tokens = <<>>
        /\ InLoop =>
              /\ pc = "done"
              /\ i = 0
              /\ Len(rects) = 1
              /\ rects[1].x = margin /\ rects[1].y = margin
              /\ rects[1].w = Unit - 2 * margin /\ rects[1].h = Unit - 2 * margin
              /\ rects[1].depth = 0
        /\ elements.orbits \in {None, <<>>}
        /\ elements.ribbons \in {None, <<>>}
        /\ elements.spirals \in {None, <<>>}

\* the token-mode partition has returned on empty text
C7_Witness ==
    /\ text = <<>>
    /\ variant = "gen2"
    /\ pc = "done"
    /\ Len(rects) = 1

\* C8 as claimed: when the tokenizer fails with TokenError, the list
\* returned is exactly the one fallback symbol, the symbols classified
\* before the failure being discarded.
C8_SingleFallback ==
    (variant \in TokenVariants /\ pc = "tokenized"
        /\ generate_tokens(text).end = "TokenError") =>
        tokens = <<Fallback(text)>>

\* C9 as claimed: no failure of the tokenizer leaves tokenize_source.
C9_NeverPropagates == pc # "raised"

RECURSIVE IsSubseq(_, _)
IsSubseq(s, t) ==
    IF s = <<>> THEN TRUE
    ELSE IF t = <<>> THEN FALSE
    ELSE IF Head(s) = Head(t) THEN IsSubseq(Tail(s), Tail(t))
    ELSE IsSubseq(s, Tail(t))

\* a text of blanks and newlines only
Blank(t) == \A k \in 1..Len(t) : t[k] \in {" ", "\n"}

PalettesChosen == variant \in {"gen2", "gen4"} /\ pc \in {"chosen", "loop", "done"}

\* C11: choose_palettes returns exactly 3 pairwise distinct indices of the
\* catalog, the first three of one shuffle of range(len(PALETTES)) by the
\* generator seeded from the text; the selection is a function of the text
\* (and of the hash key of the process) only, whatever the cap, the margin
\* and the state of the partition.
C11_PaletteSelection ==
    PalettesChosen =>
        /\ Len(palettes) = 3
        /\ \A k \in 1..3 : palettes[k] \in 0..(NumPalettes - 1)
        /\ \A a, b \in 1..3 : a # b => palettes[a] # palettes[b]
        /\ palettes = Chosen(shuffle([k \in 1..NumPalettes |-> k - 1],
                                     Random(SeedOf(hashkey[1], text))).list)

\* a selection that is not the head of the catalog, kept while the
\* partition has split
C11_Witness ==
    /\ PalettesChosen
    /\ pc = "done"
    /\ Len(rects) >= 3
    /\ palettes # <<0, 1, 2>>

\* the elements of the three families made by one run of gen3.py
NumElements ==
    Len(elements.orbits) + Len(elements.ribbons) + Len(elements.spirals)

\* C12 as claimed: the run of make_figure never makes more elements,
\* circles, ribbons and spirals together, than max_items.
C12_TotalWithinMax ==
    (variant = "gen3" /\ pc = "done") => NumElements <= cap

\* the class a rectangle is drawn with: char_group of its char in
\* character mode, its group in token mode
Class(rect) == IF variant = "gen" THEN char_group(rect.char) ELSE rect.group

\* the one rectangle of the list is the canvas inset by the margin
IsCanvas(list) ==
    /\ Len(list) = 1
    /\ list[1].x = margin /\ list[1].y = margin
    /\ list[1].w = Unit - 2 * margin /\ list[1].h = Unit - 2 * margin
    /\ list[1].depth = 0

\* C13 as claimed: before any symbol is consumed the list is the canvas
\* rectangle alone, of class "background", in every variant.
C13_BackgroundClass ==
    (InLoop /\ i = 0) => (IsCanvas(rects) /\ Class(rects[1]) = "background")

\* C13 as amended: before any symbol is consumed the list is the canvas
\* rectangle alone (x = y = margin, w = h = 1 - 2 * margin, depth 0); in
\* token mode its group is "background" and its token None; in character
\* mode it carries the char " " and is classified "whitespace", as a
\* rectangle split by a blank is.
C13_InitialState ==
    (InLoop /\ i = 0) =>
        /\ IsCanvas(rects)
        /\ variant = "gen" =>
              (rects[1].char = " " /\ Class(rects[1]) = "whitespace")
        /\ variant # "gen" =>
              (rects[1].token = None /\ Class(rects[1]) = "background")

\* the loop is about to consume the first of several symbols
C13_Witness ==
    /\ variant = "gen"
    /\ pc = "loop"
    /\ i = 0
    /\ Len(text) >= 2
    /\ margin = DefaultMargin

\* min_size of the running variant
MinSize == IF variant = "gen" THEN CharMinSize ELSE TokenMinSize

\* idx of the next iteration: code % len(rects) in character mode, the
\* rectangle picked by area in token mode
SelectedIdx ==
    IF variant = "gen"
    THEN CharIdx(ord(text[i + 1]), Len(rects))
    ELSE PickIdx(rects, Pick(random(rng), SumAreas(rects)))

\* an iteration of the loop on a selected rectangle that is too small
C14_Reject ==
    (pc = "loop" /\ pc' = "loop" /\ TooSmall(rects[SelectedIdx + 1], MinSize)) =>
        (rects' = rects /\ i' = i + 1)

\* C14: when the selected rectangle has width < min_size or height <
\* min_size, the list after the step is the list before it, same
\* rectangles at the same positions, none created, and the loop goes on
\* with the next symbol.
C14_RejectionUnchanged == [][C14_Reject]_vars

\* a list of several rectangles after a rejection, in token mode
C14_Witness ==
    /\ variant = "gen4"
    /\ InLoop
    /\ Len(rects) >= 2
    /\ Len(rects) < 1 + i

\* a and b lie side by side and together make up exactly the rectangle p
SideBySide(a, b, p) ==
    /\ a.x = p.x /\ a.y = p.y /\ b.y = p.y
    /\ a.h = p.h /\ b.h = p.h
    /\ b.x = a.x + a.w
    /\ a.w + b.w = p.w

\* a lies below b and together they make up exactly the rectangle p
Stacked(a, b, p) ==
    /\ a.x = p.x /\ a.y = p.y /\ b.x = p.x
    /\ a.w = p.w /\ b.w = p.w
    /\ b.y = a.y + a.h
    /\ a.h + b.h = p.h

\* an iteration of the loop: the list keeps its length (rejection) or
\* the selected rectangle, of a size that allows it, is replaced by two
\* children where it was
C15_Step ==
    (pc = "loop" /\ pc' = "loop") =>
        LET k      == SelectedIdx + 1
            parent == rects[k]
            sym    == Driving[i + 1]
        IN  IF TooSmall(parent, MinSize)
            THEN Len(rects') = Len(rects)
            ELSE /\ Len(rects') = Len(rects) + 1
                 /\ \A j \in 1..(k - 1) : rects'[j] = rects[j]
                 /\ \A j \in (k + 1)..Len(rects) : rects'[j + 1] = rects[j]
                 /\ \A j \in {k, k + 1} :
                        /\ SameSymbol(rects'[j], sym)
                        /\ rects'[j].depth = parent.depth + 1
                        /\ rects'[j] # parent
                 /\ \E a, b \in {k, k + 1} :
                        \/ SideBySide(rects'[a], rects'[b], parent)
                        \/ Stacked(rects'[a], rects'[b], parent)

\* C15: every successful step removes exactly the selected parent and
\* adds exactly two rectangles, both tagged with the driving symbol and of
\* depth parent.depth + 1, which share an edge and together equal the
\* parent's rectangle; the list grows by exactly 1 on a split, by 0 on a
\* rejection, and never shrinks.
C15_SplitStep ==
    /\ [][C15_Step]_vars
    /\ [][(pc = "loop" /\ pc' = "done") => rects' = rects]_vars

\* a list made by splits of splits, in token mode
C15_Witness ==
    /\ variant = "gen2"
    /\ InLoop
    /\ Len(rects) >= 3
    /\ \E k \in 1..Len(rects) : rects[k].depth >= 2

\* code points on which the arithmetic of the decisions is checked
CodePoints == 0..255

\* an iteration of the loop of gen.py on the character text[i + 1], with
\* n rectangles in the list
C16_Step ==
    (variant = "gen" /\ pc = "loop" /\ pc' = "loop") =>
        LET code   == ord(text[i + 1])
            n      == Len(rects)
            k      == (code % n) + 1
            pct    == (code % 70) + 15
            parent == rects[k]
        IN  IF Len(rects') = n
            THEN TooSmall(parent, CharMinSize)
            ELSE /\ \A j \in 1..(k - 1) : rects'[j] = rects[j]
                 /\ \A j \in (k + 1)..n : rects'[j + 1] = rects[j]
                 /\ IF code % 2 = 0
                    THEN /\ SideBySide(rects'[k], rects'[k + 1], parent)
                         /\ rects'[k].w = (parent.w * pct) \div 100
                    ELSE /\ Stacked(rects'[k], rects'[k + 1], parent)
                         /\ rects'[k].h = (parent.h * pct) \div 100

\* the arithmetic of the three decisions, on every code point
CharDecisionRanges ==
    /\ \A code \in CodePoints :
           /\ CharRatioRaw(code) \in 15..84
           /\ CharOrientation(code) \in {0, 1}
           /\ \A n \in 1..(MaxCap + 1) : CharIdx(code, n) \in 0..(n - 1)
    /\ \E code \in CodePoints : CharRatioRaw(code) = 15
    /\ \E code \in CodePoints : CharRatioRaw(code) = 84

\* C16: in character mode the target index is ord(c) mod n, the
\* orientation ord(c) mod 2 (0 vertical, 1 horizontal) and the ratio
\* ((ord(c) mod 70) + 15) / 100, which lies in [0.15, 0.84] for every
\* code point; the three depend on the character and on n only.
C16_CharDecisions == [][C16_Step]_vars /\ CharDecisionRanges

\* three characters consumed, each by a split, in either orientation
C16_Witness ==
    /\ variant = "gen"
    /\ pc = "done"
    /\ i = 3
    /\ Len(rects) = 4
    /\ \E a, b \in 1..3 : ord(text[a]) % 2 # ord(text[b]) % 2

\* the states of gen2.py and gen4.py in which the expansion has been made
Expanded == variant \in {"gen2", "gen4"} /\ InLoop /\ tokens # <<>>

\* number of places of seq that hold x
Count(x, seq) == Cardinality({k \in 1..Len(seq) : seq[k] = x})

\* copies of the symbol tokens[j]: max(1, floor(weight / totalWeight * L))
\* with L = 2 * cap
CopiesOf(j) ==
    LET c == (tokens[j].weight * (2 * cap)) \div SumWeights(tokens)
    IN  IF c >= 1 THEN c ELSE 1

\* number of places taken by the copies of tokens[1..j]
RECURSIVE CopiesUpTo(_)
CopiesUpTo(j) == IF j = 0 THEN 0 ELSE CopiesUpTo(j - 1) + CopiesOf(j)

\* the expansion before the shuffle: place p holds the first symbol whose
\* copies reach p
InOrder ==
    [p \in 1..CopiesUpTo(Len(tokens)) |->
        tokens[CHOOSE j \in 1..Len(tokens) :
                   CopiesUpTo(j - 1) < p /\ p <= CopiesUpTo(j)]]

\* generator state when choose_palettes has returned
RngAfterChoice ==
    shuffle([k \in 1..NumPalettes |-> k - 1], Random(seed[1])).rng

C18_ExpandedLength ==
    Expanded =>
        /\ \A k \in 1..Len(tokens) : tokens[k].weight >= 1
        /\ \A k \in 1..Len(tokens) : Count(tokens[k], expanded) >= 1
        /\ Len(expanded) >= Len(tokens)
        /\ Len(expanded) <= Len(tokens) + 2 * cap

\* a symbol whose share of L is below 1 and that is there once, next to
\* symbols that are repeated
C18_Witness ==
    /\ Expanded
    /\ cap >= 2
    /\ Len(expanded) > Len(tokens)
    /\ \E k \in 1..Len(tokens) :
           (tokens[k].weight * (2 * cap)) \div SumWeights(tokens) = 0

\* the loop of gen2.py or gen4.py is at the start of an iteration with
\* rectangles of total area <= 0
ZeroArea == variant \in {"gen2", "gen4"} /\ pc = "loop" /\ SumAreas(rects) <= 0

\* C19: in token mode, when the total area of the list is <= 0 at the
\* start of a step, the only step is the end of the loop: nothing is
\* selected, split or drawn, the list is returned as it is, and that step
\* can always be taken (nothing is divided by the area, nothing fails).
C19_ZeroAreaStops ==
    /\ [][ZeroArea => (pc' = "done" /\ rects' = rects /\ i' = i /\ rng' = rng)]_vars
    /\ [](ZeroArea => ENABLED <<LoopNext>>_vars)
    /\ []((variant \in {"gen2", "gen4"} /\ pc = "done" /\ margin = Unit \div 2) =>
              (IsCanvas(rects) /\ i = 0))

\* the loop has ended on an empty canvas with symbols left and room under
\* the cap
C19_Witness ==
    /\ variant \in {"gen2", "gen4"}
    /\ pc = "done"
    /\ margin = Unit \div 2
    /\ i = 0
    /\ Len(expanded) >= 2
    /\ cap >= 2

\* an iteration of the loop: every rectangle but one is in the new list
\* as it was, in the same order; that one is either kept as it was too,
\* or gone; and the list is not shorter
C20_Step ==
    (pc = "loop" /\ pc' = "loop") =>
        /\ Len(rects') >= Len(rects)
        /\ \E k \in 1..Len(rects) :
               /\ \A j \in 1..(k - 1) : rects'[j] = rects[j]
               /\ \A j \in (k + 1)..Len(rects) :
                      rects'[j + Len(rects') - Len(rects)] = rects[j]
               /\ \/ rects' = rects
                  \/ \A j \in 1..Len(rects') : rects'[j] # rects[k]

\* C20: a rectangle of the list keeps its x, y, w, h, tag and depth in
\* every later state until the step that splits it; a rectangle taken out
\* by a split is never in the list again; no step replaces two or more
\* rectangles by one.
C20_Immutable ==
    /\ [][C20_Step]_vars
    /\ [][(pc = "loop" /\ pc' = "done") => rects' = rects]_vars
    /\ [](InLoop => \A k \in 1..Len(rects) : rects[k] \notin removed)

\* two rectangles have been split and a child of the first split is still
\* in the list
C20_Witness ==
    /\ InLoop
    /\ Cardinality(removed) >= 2
    /\ \E k \in 1..Len(rects) : rects[k].depth = 1
    /\ \E k \in 1..Len(rects) : rects[k].depth >= 2

\* an iteration of the loop that splits the rectangle at index idx: the
\* left (bottom) child is at idx, the right (top) child at idx + 1, the
\* rectangles before idx keep their index, those after idx move up by one
C21_Step ==
    (pc = "loop" /\ pc' = "loop" /\ Len(rects') # Len(rects)) =>
        LET k      == SelectedIdx + 1
            parent == rects[k]
        IN  /\ Len(rects') = Len(rects) + 1
            /\ \/ SideBySide(rects'[k], rects'[k + 1], parent)
               \/ Stacked(rects'[k], rects'[k + 1], parent)
            /\ rects'[k].x = parent.x /\ rects'[k].y = parent.y
            /\ rects'[k + 1].x > parent.x \/ rects'[k + 1].y > parent.y
            /\ \A j \in 1..(k - 1) : rects'[j] = rects[j]
            /\ \A j \in (k + 1)..Len(rects) : rects'[j + 1] = rects[j]

\* C21: when the rectangle at index idx is split, the first child (left
\* for a vertical split, bottom for a horizontal one) is placed at idx and
\* the second (right, top) at idx + 1; the rectangles that were before idx
\* keep their index and those after idx move to index + 1, in the same
\* order.
C21_OrderPreserved == [][C21_Step]_vars

\* a split in the middle of the list: the two children stand between a
\* rectangle that kept its index and one that moved up
C21_Witness ==
    /\ InLoop
    /\ Len(rects) >= 4
    /\ \E k \in 2..(Len(rects) - 2) :
           /\ rects[k].depth = rects[k + 1].depth
           /\ rects[k].depth > rects[k - 1].depth
           /\ rects[k].depth > rects[k + 2].depth
           /\ \/ rects[k + 1].x = rects[k].x + rects[k].w
              \/ rects[k + 1].y = rects[k].y + rects[k].h

\* smallest part a split can give to a child, in hundredths of the side
\* that is split: 15 in character mode, 20 in token mode
MinShare == IF variant = "gen" THEN 15 ELSE 20

\* a step of the loop keeps in the list every rectangle that is too small
\* to be split
C22_SmallStay ==
    InLoop =>
        \A j \in 1..Len(rects) :
            TooSmall(rects[j], MinSize) =>
                \E k \in 1..Len(rects') : rects'[k] = rects[j]

\* C22: only rectangles of width >= min_size and height >= min_size are
\* ever split; a rectangle of width < min_size or height < min_size stays
\* in the list for the rest of the run; and on a canvas of side >= min_size
\* (the default margin, and margin 0.465) every rectangle of the list has
\* width and height >= 0.15 * min_size in character mode and >= 0.2 *
\* min_size in token mode.
C22_LowerBound ==
    /\ [](\A r \in removed : r.w >= MinSize /\ r.h >= MinSize)
    /\ [][C22_SmallStay]_vars
    /\ []((InLoop /\ Unit - 2 * margin >= MinSize) =>
             \A k \in 1..Len(rects) :
                 /\ 100 * rects[k].w >= MinShare * MinSize
                 /\ 100 * rects[k].h >= MinShare * MinSize)

\* a split at the smallest ratio of a rectangle just wide enough has made
\* a child of width 0.15 * min_size, and a rectangle smaller than min_size
\* has been selected and rejected and is still in the list
C22_Witness ==
    /\ variant = "gen"
    /\ InLoop
    /\ removed # {}
    /\ Len(rects) < 1 + i
    /\ \E k \in 1..Len(rects) : 100 * rects[k].w = MinShare * MinSize
    /\ \E k \in 1..Len(rects) :
           rects[k].depth >= 1 /\ TooSmall(rects[k], MinSize)

====
